---- MODULE Spec2Model ----
(***************************************************************************)
(* Placement engine of the signal flag canvas (SignalProvider).            *)
(*                                                                         *)
(* Coordinates are canvas-local pixels.  Every geometry and every drop     *)
(* point used below is an integer and every desktop canvas width is even,  *)
(* so all of the code's arithmetic (halves of 42 and 64, the centred       *)
(* startX) stays in the integers and is modelled exactly.                  *)
(***************************************************************************)
EXTENDS Integers, Sequences, FiniteSets, TLC

\* ---------------------------------------------------------------- bounds
\* Number of items one run may create (ids are 1..MaxFlags).
MaxFlags == 3
\* Number of autoPlace calls of one run of the autoPlace-only specification.
MaxAuto == 34
\* Number of autoPlace calls of one run of the specification over canvas sizes.
MaxGridItems == 1
\* Items added in the specification of drops followed by autoPlace calls.
MaxDropFlags == 2

\* ------------------------------------------------------- program constants
\* Faulty variant: the cap on loop iterations is higher.
maxAttemptsRaised == 20 + 5
maxAttempts == 20

VARIABLES
  placedFlags,    \* useState<PlacedFlag[]>: sequence of [id, type, left, top]
  gridPosition,   \* gridPositionRef.current: [col, row]
  columnHeights,  \* columnHeightsRef.current: column index -> height
  playArea,       \* playAreaRef.current with its bounding rect, or NoNode
  isMobile,       \* isMobileDevice()
  storage,        \* localStorage['placedFlags']
  phase,          \* position in the mount sequence, "ready" afterwards
  pendingFlags,   \* state update queued by the load effect
  nextId,         \* next value nanoid() returns
  last            \* what the last handler did (observation only)

vars == <<placedFlags, gridPosition, columnHeights, playArea, isMobile,
          storage, phase, pendingFlags, nextId, last>>

\* ------------------------------------------------------------------ helpers
Max(a, b) == IF a >= b THEN a ELSE b
Min(a, b) == IF a <= b THEN a ELSE b
\* Math.ceil(n / d) for d > 0
CeilDiv(n, d) == -((-n) \div d)

NoNode == [node |-> FALSE, width |-> 0, height |-> 0]
Rect(w, h) == [node |-> TRUE, width |-> w, height |-> h]

\* The catalog (getAllSignals) and the keys a caller may pass.
Inventory == {"A"}
FlagTypes == Inventory \cup {"unknown"}

\* --------------------------------------------------------------- GridConfig
\* Faulty variant: maxItemsPerColumn is not raised to 1.
getGridConfigNoMinimum(area, mobile) ==
  LET itemWidth == IF mobile THEN 42 ELSE 64
      itemHeight == IF mobile THEN 42 ELSE 64
      horizontalSpacing == IF mobile THEN 20 ELSE 24
      verticalSpacing == IF mobile THEN 10 ELSE 20
      columnWidth == itemWidth + horizontalSpacing
      areaWidth == IF area.node THEN area.width ELSE 320
      areaHeight == IF area.node THEN area.height ELSE 480
  IN [startX |-> IF ~area.node THEN (IF mobile THEN 40 ELSE 80)
                 ELSE IF mobile THEN 37
                 ELSE (areaWidth - (3 * columnWidth - horizontalSpacing)) \div 2,
      startY |-> IF mobile THEN 45 ELSE 55,
      itemWidth |-> itemWidth, itemHeight |-> itemHeight,
      horizontalSpacing |-> horizontalSpacing,
      verticalSpacing |-> verticalSpacing,
      maxItemsPerColumn |->
        IF ~area.node THEN (IF mobile THEN 8 ELSE 5)
        ELSE (areaHeight - (IF mobile THEN 100 ELSE 200))
               \div (itemHeight + verticalSpacing),
      columnWidth |-> columnWidth,
      canvasWidth |-> areaWidth, canvasHeight |-> areaHeight,
      safetyMargin |-> 16]

\* Faulty variant: a compact device gets no minimum of 8 items per column.
getGridConfigSameOnCompact(area, mobile) ==
  LET itemWidth == IF mobile THEN 42 ELSE 64
      itemHeight == IF mobile THEN 42 ELSE 64
      horizontalSpacing == IF mobile THEN 20 ELSE 24
      verticalSpacing == IF mobile THEN 10 ELSE 20
      columnWidth == itemWidth + horizontalSpacing
      safetyMargin == 16
  IN IF ~area.node
     THEN [startX |-> IF mobile THEN 40 ELSE 80,
           startY |-> IF mobile THEN 45 ELSE 55,
           itemWidth |-> itemWidth, itemHeight |-> itemHeight,
           horizontalSpacing |-> horizontalSpacing,
           verticalSpacing |-> verticalSpacing,
           maxItemsPerColumn |-> IF mobile THEN 8 ELSE 5,
           columnWidth |-> columnWidth,
           canvasWidth |-> 320, canvasHeight |-> 480,
           safetyMargin |-> safetyMargin]
     ELSE
       LET areaWidth == area.width
           areaHeight == area.height
           bottomSafetyBuffer == IF mobile THEN 60 ELSE 100
           heightBuffer == IF mobile THEN 40 ELSE 100
           maxItemsPerColumn ==
             Max(1, (areaHeight - heightBuffer - bottomSafetyBuffer)
                      \div (itemHeight + verticalSpacing))
           \* min(36, areaWidth * 0.1) is at most 36 and the other operand
           \* of max is 37, so rounding areaWidth * 0.1 down changes nothing
           startX == IF mobile
                     THEN Max(itemWidth \div 2 + safetyMargin,
                              Min(36, areaWidth \div 10))
                     ELSE (areaWidth - (3 * columnWidth - horizontalSpacing)) \div 2
           startY == IF mobile THEN Max(itemHeight \div 2 + safetyMargin, 45) ELSE 55
       IN [startX |-> startX, startY |-> startY,
           itemWidth |-> itemWidth, itemHeight |-> itemHeight,
           horizontalSpacing |-> horizontalSpacing,
           verticalSpacing |-> verticalSpacing,
           maxItemsPerColumn |-> maxItemsPerColumn,
           columnWidth |-> columnWidth,
           canvasWidth |-> areaWidth, canvasHeight |-> areaHeight,
           safetyMargin |-> safetyMargin]

getGridConfig(area, mobile) ==
  LET itemWidth == IF mobile THEN 42 ELSE 64
      itemHeight == IF mobile THEN 42 ELSE 64
      horizontalSpacing == IF mobile THEN 20 ELSE 24
      verticalSpacing == IF mobile THEN 10 ELSE 20
      columnWidth == itemWidth + horizontalSpacing
      safetyMargin == 16
  IN IF ~area.node
     THEN [startX |-> IF mobile THEN 40 ELSE 80,
           startY |-> IF mobile THEN 45 ELSE 55,
           itemWidth |-> itemWidth, itemHeight |-> itemHeight,
           horizontalSpacing |-> horizontalSpacing,
           verticalSpacing |-> verticalSpacing,
           maxItemsPerColumn |-> IF mobile THEN 8 ELSE 5,
           columnWidth |-> columnWidth,
           canvasWidth |-> 320, canvasHeight |-> 480,
           safetyMargin |-> safetyMargin]
     ELSE
       LET areaWidth == area.width
           areaHeight == area.height
           bottomSafetyBuffer == IF mobile THEN 60 ELSE 100
           heightBuffer == IF mobile THEN 40 ELSE 100
           maxItemsPerColumn ==
             Max(1, (areaHeight - heightBuffer - bottomSafetyBuffer)
                      \div (itemHeight + verticalSpacing))
           \* min(36, areaWidth * 0.1) is at most 36 and the other operand
           \* of max is 37, so rounding areaWidth * 0.1 down changes nothing
           startX == IF mobile
                     THEN Max(itemWidth \div 2 + safetyMargin,
                              Min(36, areaWidth \div 10))
                     ELSE (areaWidth - (3 * columnWidth - horizontalSpacing)) \div 2
           startY == IF mobile THEN Max(itemHeight \div 2 + safetyMargin, 45) ELSE 55
       IN [startX |-> startX, startY |-> startY,
           itemWidth |-> itemWidth, itemHeight |-> itemHeight,
           horizontalSpacing |-> horizontalSpacing,
           verticalSpacing |-> verticalSpacing,
           maxItemsPerColumn |-> IF mobile THEN Max(maxItemsPerColumn, 8)
                                          ELSE maxItemsPerColumn,
           columnWidth |-> columnWidth,
           canvasWidth |-> areaWidth, canvasHeight |-> areaHeight,
           safetyMargin |-> safetyMargin]

\* ---------------------------------------------------------- BoundaryChecker
\* Faulty variant: an edge on the margin line counts as exceeding.
wouldExceedOrTouchBoundary(left, top, gridConfig) ==
  LET halfWidth == gridConfig.itemWidth \div 2
      halfHeight == gridConfig.itemHeight \div 2
      margin == gridConfig.safetyMargin
  IN \/ left - halfWidth <= margin
     \/ left + halfWidth >= gridConfig.canvasWidth - margin
     \/ top - halfHeight <= margin
     \/ top + halfHeight >= gridConfig.canvasHeight - margin

wouldExceedCanvasBoundary(left, top, gridConfig) ==
  LET halfWidth == gridConfig.itemWidth \div 2
      halfHeight == gridConfig.itemHeight \div 2
      margin == gridConfig.safetyMargin
      exceedsLeft == left - halfWidth < margin
      exceedsRight == left + halfWidth > gridConfig.canvasWidth - margin
      exceedsTop == top - halfHeight < margin
      exceedsBottom == top + halfHeight > gridConfig.canvasHeight - margin
  IN exceedsLeft \/ exceedsRight \/ exceedsTop \/ exceedsBottom

\* Faulty variant: the left edge of the column is taken as the centre.
SlotLeftAtColumnEdge(g, col) == g.startX + col * g.columnWidth

\* Centre of grid slot (col, row): the position autoPlaceFlag computes.
SlotLeft(g, col) == g.startX + col * g.columnWidth + g.itemWidth \div 2
SlotTop(g, row) == g.startY + row * (g.itemHeight + g.verticalSpacing) + g.itemHeight \div 2

\* ------------------------------------------------------------ columnHeights
EmptyHeights == [c \in {} |-> 0]
\* Faulty variant: the height recorded so far is ignored.
HeightAlways0(heights, col) == 0

\* columnHeightsRef.current[col] || 0
HeightOr0(heights, col) == IF col \in DOMAIN heights THEN heights[col] ELSE 0
\* columnHeightsRef.current[col] used as a condition (undefined and 0 are falsy)
Truthy(heights, col) == col \in DOMAIN heights /\ heights[col] # 0
SetHeight(heights, col, h) ==
  [c \in DOMAIN heights \cup {col} |-> IF c = col THEN h ELSE heights[c]]

SetMin(S) == CHOOSE x \in S : \A y \in S : x <= y

\* ------------------------------------------------------------------ reconcile
\* flags.forEach: the column of each flag and the maximum bottom edge per column
\* Faulty variant: a column left of column 0 is tracked too.
RECURSIVE HeightsFromFlagsAnyColumn(_, _, _)
HeightsFromFlagsAnyColumn(flags, g, heights) ==
  IF flags = <<>> THEN heights
  ELSE LET flag == Head(flags)
           col == (flag.left - g.startX) \div g.columnWidth
           rowBottom == flag.top + g.itemHeight \div 2
       IN HeightsFromFlagsAnyColumn(Tail(flags), g,
            SetHeight(heights, col, Max(HeightOr0(heights, col), rowBottom)))

RECURSIVE HeightsFromFlags(_, _, _)
HeightsFromFlags(flags, g, heights) ==
  IF flags = <<>> THEN heights
  ELSE LET flag == Head(flags)
           col == (flag.left - g.startX) \div g.columnWidth
           rowBottom == flag.top + g.itemHeight \div 2
       IN HeightsFromFlags(Tail(flags), g,
            IF col >= 0
            THEN SetHeight(heights, col, Max(HeightOr0(heights, col), rowBottom))
            ELSE heights)

\* Object.entries(columnHeights).forEach, keys ascending: the first column of
\* the smallest height.  acc.inf stands for minHeight = Infinity.
RECURSIVE MinHeightScan(_, _, _)
MinHeightScan(heights, cols, acc) ==
  IF cols = {} THEN acc
  ELSE LET c == SetMin(cols)
       IN MinHeightScan(heights, cols \ {c},
            IF acc.inf \/ heights[c] < acc.height
            THEN [col |-> c, height |-> heights[c], inf |-> FALSE]
            ELSE acc)

\* while (columnHeights[nextCol] && columnHeights[nextCol] > startY + itemHeight) nextCol++
RECURSIVE NextAvailableCol(_, _, _)
NextAvailableCol(heights, g, nextCol) ==
  IF Truthy(heights, nextCol) /\ heights[nextCol] > g.startY + g.itemHeight
  THEN NextAvailableCol(heights, g, nextCol + 1)
  ELSE nextCol

\* Result of updateGridPositionFromExistingFlags: the two refs it assigns.
updateGridPositionFromExistingFlags(flags, g) ==
  IF Len(flags) = 0
  THEN [pos |-> [col |-> 0, row |-> 0], heights |-> EmptyHeights]
  ELSE
    LET heights == HeightsFromFlags(flags, g, EmptyHeights)
        m == MinHeightScan(heights, DOMAIN heights,
                           [col |-> 0, height |-> 0, inf |-> TRUE])
        minHeightCol == m.col
        minHeightRow ==
          IF Truthy(heights, minHeightCol)
          THEN CeilDiv(heights[minHeightCol] - g.startY,
                       g.itemHeight + g.verticalSpacing)
          ELSE 0
    IN IF minHeightRow >= g.maxItemsPerColumn
       THEN [pos |-> [col |-> NextAvailableCol(heights, g, 0), row |-> 0],
             heights |-> heights]
       ELSE [pos |-> [col |-> minHeightCol, row |-> minHeightRow],
             heights |-> heights]

\* ------------------------------------------------------------------ autoPlace
maxRightPosition(g) == g.canvasWidth - g.itemWidth \div 2 - g.safetyMargin
\* Faulty variant: the right boundary is never found exceeded.
PastRightNever(g, left) == FALSE
\* left + itemWidth / 2 + safetyMargin > canvasWidth
PastRight(g, left) == left + g.itemWidth \div 2 + g.safetyMargin > g.canvasWidth
\* Faulty variant: the bottom boundary is never found exceeded.
PastBottomNever(g, top) == FALSE
\* top + itemHeight / 2 + safetyMargin > canvasHeight
PastBottom(g, top) == top + g.itemHeight \div 2 + g.safetyMargin > g.canvasHeight

\* for (r = 0; r < maxItemsPerColumn; r++): first row of column 0 in bounds, else 0
RECURSIVE FindRow(_, _)
FindRow(g, r) ==
  IF r >= g.maxItemsPerColumn THEN 0
  ELSE IF ~wouldExceedCanvasBoundary(g.startX + g.itemWidth \div 2, SlotTop(g, r), g)
       THEN r
       ELSE FindRow(g, r + 1)

\* Faulty variant: the boundary-avoidance loop never runs.
AvoidBoundarySkip(g, s) == s

\* The while loop of autoPlaceFlag.  s = [col, row, left, top, boundaryExceeded,
\* attempts, fallback, rollover]; fallback records that the last-resort branch
\* was taken and rollover that some iteration took the bottom-boundary branch
\* (col++, row = 0).
RECURSIVE AvoidBoundary(_, _)
AvoidBoundary(g, s) ==
  IF ~(s.boundaryExceeded /\ s.attempts < maxAttempts) THEN s
  ELSE
    LET attempts == s.attempts + 1
        moved ==
          IF PastRight(g, s.left)
          THEN [col |-> 0, row |-> s.row + 1]
          ELSE IF PastBottom(g, s.top)
               THEN IF PastRight(g, SlotLeft(g, s.col + 1))
                    THEN [col |-> 0, row |-> FindRow(g, 0)]
                    ELSE [col |-> s.col + 1, row |-> 0]
               ELSE [col |-> s.col, row |-> s.row + 1]
        top == SlotTop(g, moved.row)
        reset == PastRight(g, SlotLeft(g, moved.col))
        col == IF reset THEN 0 ELSE moved.col
        left == IF reset THEN g.startX + g.itemWidth \div 2 ELSE SlotLeft(g, moved.col)
        boundaryExceeded ==
          wouldExceedCanvasBoundary(left, top, g) \/ left > maxRightPosition(g)
        rollover == s.rollover \/ (~PastRight(g, s.left) /\ PastBottom(g, s.top))
    IN IF attempts >= maxAttempts - 1 /\ boundaryExceeded
       THEN [col |-> 0, row |-> 0,
             left |-> g.startX + g.itemWidth \div 2 + g.safetyMargin,
             top |-> g.startY + g.itemHeight \div 2 + g.safetyMargin,
             boundaryExceeded |-> boundaryExceeded,
             attempts |-> attempts, fallback |-> TRUE, rollover |-> rollover]
       ELSE AvoidBoundary(g, [col |-> col, row |-> moved.row,
                              left |-> left, top |-> top,
                              boundaryExceeded |-> boundaryExceeded,
                              attempts |-> attempts, fallback |-> FALSE,
                              rollover |-> rollover])

\* Lines 286-378: the slot autoPlaceFlag resolves from the cursor.
ResolveSlot(g, pos) ==
  LET left == SlotLeft(g, pos.col)
      top == SlotTop(g, pos.row)
  IN AvoidBoundary(g, [col |-> pos.col, row |-> pos.row, left |-> left, top |-> top,
                       boundaryExceeded |->
                         wouldExceedCanvasBoundary(left, top, g)
                           \/ left > maxRightPosition(g),
                       attempts |-> 0, fallback |-> FALSE, rollover |-> FALSE])

\* Faulty variant: no tracked column is ever found.
ShortestScanFindsNone(heights, g, cols, acc) == acc

\* Object.entries(columnHeights).forEach of the cursor update: the first
\* in-bounds column of the smallest height.
RECURSIVE ShortestScan(_, _, _, _)
ShortestScan(heights, g, cols, acc) ==
  IF cols = {} THEN acc
  ELSE LET colNum == SetMin(cols)
           height == heights[colNum]
           colLeft == SlotLeft(g, colNum)
       IN ShortestScan(heights, g, cols \ {colNum},
            IF /\ (acc.inf \/ height < acc.height)
               /\ ~wouldExceedCanvasBoundary(colLeft, height + g.itemHeight, g)
               /\ colLeft <= maxRightPosition(g)
            THEN [col |-> colNum, height |-> height, inf |-> FALSE]
            ELSE acc)

\* Faulty variant: the cursor stays on the row it just filled.
NextGridPositionNoRowStep(g, col, row, left, top, heights) ==
  IF \/ row + 1 >= g.maxItemsPerColumn
     \/ wouldExceedCanvasBoundary(left, top + g.itemHeight + g.verticalSpacing, g)
  THEN IF PastRight(g, SlotLeft(g, col + 1))
       THEN [col |-> 0, row |-> 0]
       ELSE [col |-> col + 1, row |-> 0]
  ELSE [col |-> col, row |-> row]

\* Faulty variant: the cursor fills rows left to right before it moves down.
NextGridPositionRowFirst(g, col, row, left, top, heights) ==
  IF PastRight(g, SlotLeft(g, col + 1))
  THEN [col |-> 0, row |-> row + 1]
  ELSE [col |-> col + 1, row |-> row]

\* Faulty variant: the row below is taken without the boundary test.
NextGridPositionNoBoundaryTest(g, col, row, left, top, heights) ==
  IF row + 1 >= g.maxItemsPerColumn
  THEN IF PastRight(g, SlotLeft(g, col + 1))
       THEN LET f == ShortestScan(heights, g, DOMAIN heights,
                                  [col |-> 0, height |-> 0, inf |-> TRUE])
            IN [col |-> f.col, row |-> 0]
       ELSE [col |-> col + 1, row |-> 0]
  ELSE [col |-> col, row |-> row + 1]

\* Faulty variant: the cursor wraps one column before the last that fits.
NextGridPositionWrapsEarly(g, col, row, left, top, heights) ==
  IF \/ row + 1 >= g.maxItemsPerColumn
     \/ wouldExceedCanvasBoundary(left, top + g.itemHeight + g.verticalSpacing, g)
  THEN IF PastRight(g, SlotLeft(g, col + 2))
       THEN LET f == ShortestScan(heights, g, DOMAIN heights,
                                  [col |-> 0, height |-> 0, inf |-> TRUE])
            IN [col |-> f.col, row |-> 0]
       ELSE [col |-> col + 1, row |-> 0]
  ELSE [col |-> col, row |-> row + 1]

\* Lines 395-441: the cursor after committing at slot (col, row).
NextGridPosition(g, col, row, left, top, heights) ==
  IF \/ row + 1 >= g.maxItemsPerColumn
     \/ wouldExceedCanvasBoundary(left, top + g.itemHeight + g.verticalSpacing, g)
  THEN IF PastRight(g, SlotLeft(g, col + 1))
       THEN LET f == ShortestScan(heights, g, DOMAIN heights,
                                  [col |-> 0, height |-> 0, inf |-> TRUE])
            IN [col |-> f.col, row |-> 0]
       ELSE [col |-> col + 1, row |-> 0]
  ELSE [col |-> col, row |-> row + 1]

\* ---------------------------------------------------------------- persistence
\* localStorage holds text.  A PlacedFlag is written as a JSON object, here the
\* tuple of its fields; JSON.parse rebuilds the object or throws.
Missing == [kind |-> "missing"]
Malformed == [kind |-> "malformed"]
\* Text that JSON.parse accepts but that is not an array: null, a number, {}.
JsonNull == [kind |-> "null"]
JsonNumber == [kind |-> "number"]
JsonObject == [kind |-> "object"]
NonArrayTexts == {JsonNull, JsonNumber, JsonObject}
\* Faulty variant: only the newest item is written.
StringifyNewestOnly(flags) ==
  [kind |-> "array",
   items |-> IF flags = <<>> THEN <<>>
             ELSE LET f == flags[Len(flags)] IN << <<f.id, f.type, f.left, f.top>> >>]

\* JSON.stringify(placedFlags)
Stringify(flags) ==
  [kind |-> "array",
   items |-> [i \in 1..Len(flags) |->
                <<flags[i].id, flags[i].type, flags[i].left, flags[i].top>>]]
\* JSON.parse(savedFlags) of an array text
ParseArray(text) ==
  [i \in 1..Len(text.items) |->
     [id |-> text.items[i][1], type |-> text.items[i][2],
      left |-> text.items[i][3], top |-> text.items[i][4]]]

\* ------------------------------------------------------------------- geometry
\* The canvases and device classes of a run: compact (mobile) and regular.
Geometries ==
  { [area |-> Rect(320, 480), mobile |-> TRUE],
    [area |-> Rect(200, 200), mobile |-> TRUE],
    [area |-> Rect(250, 150), mobile |-> TRUE],
    [area |-> Rect(0, 0), mobile |-> TRUE],
    [area |-> NoNode, mobile |-> TRUE],
    [area |-> Rect(300, 300), mobile |-> FALSE],
    [area |-> Rect(400, 400), mobile |-> FALSE],
    [area |-> Rect(200, 400), mobile |-> FALSE],
    [area |-> Rect(250, 1800), mobile |-> FALSE],
    [area |-> NoNode, mobile |-> FALSE] }

\* The geometries of the specification with every handler.
SomeGeometries ==
  { [area |-> Rect(320, 480), mobile |-> TRUE],
    [area |-> Rect(250, 150), mobile |-> TRUE],
    [area |-> Rect(0, 0), mobile |-> TRUE],
    [area |-> Rect(300, 300), mobile |-> FALSE],
    [area |-> Rect(200, 400), mobile |-> FALSE],
    [area |-> NoNode, mobile |-> FALSE] }

Config == getGridConfig(playArea, isMobile)

\* Drop points the UI may hand to addFlag and moveFlag: near the top left
\* corner, far outside, on slot (0, 0), and above the canvas in column 0.
DropPoints(g) ==
  { <<5, 5>>, <<1000, 1000>>, <<SlotLeft(g, 0), SlotTop(g, 0)>>,
    <<SlotLeft(g, 0), -100>> }

Ids == 1..MaxFlags

\* ------------------------------------------------------------------- handlers
NoOp == [op |-> "none", ok |-> FALSE, fallback |-> FALSE, attempts |-> 0,
         col |-> 0, row |-> 0, id |-> 0, left |-> 0, top |-> 0,
         rollover |-> FALSE, from |-> [col |-> 0, row |-> 0],
         afterRollover |-> FALSE]

\* Faulty variant: only the left edge is clamped.
ClampLeftLowerOnly(g, left) ==
  IF left - g.itemWidth \div 2 < g.safetyMargin
  THEN g.itemWidth \div 2 + g.safetyMargin
  ELSE left

\* The clamping addFlag and moveFlag apply on a mobile device.
ClampLeft(g, left) ==
  LET halfWidth == g.itemWidth \div 2
      margin == g.safetyMargin
  IN IF left - halfWidth < margin THEN halfWidth + margin
     ELSE IF left + halfWidth > g.canvasWidth - margin
          THEN g.canvasWidth - halfWidth - margin
          ELSE left
ClampTop(g, top) ==
  LET halfHeight == g.itemHeight \div 2
      margin == g.safetyMargin
  IN IF top - halfHeight < margin THEN halfHeight + margin
     ELSE IF top + halfHeight > g.canvasHeight - margin
          THEN g.canvasHeight - halfHeight - margin
          ELSE top

\* Faulty variant: the id is not compared, every flag is moved.
MapMoveAll(flags, id, left, top) ==
  [i \in 1..Len(flags) |-> [flags[i] EXCEPT !.left = left, !.top = top]]

\* prev.map(flag => flag.id === id ? {...flag, left, top} : flag)
MapMove(flags, id, left, top) ==
  [i \in 1..Len(flags) |->
     IF flags[i].id = id THEN [flags[i] EXCEPT !.left = left, !.top = top]
     ELSE flags[i]]
\* Faulty variant: the items behind the removed one are dropped with it.
FilterOutAndBehind(flags, id) ==
  LET hits == { i \in 1..Len(flags) : flags[i].id = id }
  IN IF hits = {} THEN flags ELSE SubSeq(flags, 1, SetMin(hits) - 1)
\* prev.filter(flag => flag.id !== id)
FilterOut(flags, id) == SelectSeq(flags, LAMBDA flag : flag.id # id)

\* Faulty variant: the lookup result is not checked.
InventoryHasAny(flagType) == TRUE

\* inventory.find(f => f.type === flagType) finds a flag
InventoryHas(flagType) == flagType \in Inventory

HasId(flags, id) == \E i \in 1..Len(flags) : flags[i].id = id

\* Faulty variant: a call that directly follows a call whose loop rolled over
\* to a new column returns without placing.
autoPlaceFlagSkipsAfterRollover(flagType) ==
  /\ phase = "ready"
  /\ IF ~InventoryHas(flagType)
     THEN /\ last' = [NoOp EXCEPT !.op = "autoPlaceFlag"]
          /\ UNCHANGED <<placedFlags, gridPosition, columnHeights, storage, nextId>>
     ELSE IF last.op = "autoPlaceFlag" /\ last.rollover
     THEN /\ last' = [NoOp EXCEPT !.op = "autoPlaceFlag", !.ok = TRUE,
                                  !.from = gridPosition, !.afterRollover = TRUE]
          /\ UNCHANGED <<placedFlags, gridPosition, columnHeights, storage, nextId>>
     ELSE LET g == Config
              s == ResolveSlot(g, gridPosition)
              newFlag == [id |-> nextId, type |-> flagType,
                          left |-> s.left, top |-> s.top]
              heights == SetHeight(columnHeights, s.col,
                                   Max(HeightOr0(columnHeights, s.col),
                                       s.top + g.itemHeight \div 2))
          IN /\ placedFlags' = Append(placedFlags, newFlag)
             /\ columnHeights' = heights
             /\ gridPosition' = NextGridPosition(g, s.col, s.row, s.left, s.top, heights)
             /\ storage' = Stringify(placedFlags')
             /\ nextId' = nextId + 1
             /\ last' = [NoOp EXCEPT !.op = "autoPlaceFlag",
                                     !.ok = (flagType \in Inventory),
                                     !.fallback = s.fallback, !.attempts = s.attempts,
                                     !.col = s.col, !.row = s.row, !.id = nextId,
                                     !.rollover = s.rollover, !.from = gridPosition,
                                     !.afterRollover = FALSE]
  /\ UNCHANGED <<playArea, isMobile, phase, pendingFlags>>

\* Faulty variant: the last-resort branch commits the centre of slot (0, 0).
autoPlaceFlagLastResortAtSlotCentre(flagType) ==
  /\ phase = "ready"
  /\ IF ~InventoryHas(flagType)
     THEN /\ last' = [NoOp EXCEPT !.op = "autoPlaceFlag"]
          /\ UNCHANGED <<placedFlags, gridPosition, columnHeights, storage, nextId>>
     ELSE LET g == Config
              s == ResolveSlot(g, gridPosition)
              left == IF s.fallback THEN SlotLeft(g, 0) ELSE s.left
              top == IF s.fallback THEN SlotTop(g, 0) ELSE s.top
              newFlag == [id |-> nextId, type |-> flagType, left |-> left, top |-> top]
              heights == SetHeight(columnHeights, s.col,
                                   Max(HeightOr0(columnHeights, s.col),
                                       top + g.itemHeight \div 2))
          IN /\ placedFlags' = Append(placedFlags, newFlag)
             /\ columnHeights' = heights
             /\ gridPosition' = NextGridPosition(g, s.col, s.row, left, top, heights)
             /\ storage' = Stringify(placedFlags')
             /\ nextId' = nextId + 1
             /\ last' = [NoOp EXCEPT !.op = "autoPlaceFlag",
                                     !.ok = (flagType \in Inventory),
                                     !.fallback = s.fallback, !.attempts = s.attempts,
                                     !.col = s.col, !.row = s.row, !.id = nextId,
                                     !.rollover = s.rollover, !.from = gridPosition,
                                     !.afterRollover =
                                       (last.op = "autoPlaceFlag" /\ last.rollover)]
  /\ UNCHANGED <<playArea, isMobile, phase, pendingFlags>>

autoPlaceFlag(flagType) ==
  /\ phase = "ready"
  /\ IF ~InventoryHas(flagType)
     THEN /\ last' = [NoOp EXCEPT !.op = "autoPlaceFlag"]
          /\ UNCHANGED <<placedFlags, gridPosition, columnHeights, storage, nextId>>
     ELSE LET g == Config
              s == ResolveSlot(g, gridPosition)
              newFlag == [id |-> nextId, type |-> flagType,
                          left |-> s.left, top |-> s.top]
              heights == SetHeight(columnHeights, s.col,
                                   Max(HeightOr0(columnHeights, s.col),
                                       s.top + g.itemHeight \div 2))
          IN /\ placedFlags' = Append(placedFlags, newFlag)
             /\ columnHeights' = heights
             /\ gridPosition' = NextGridPosition(g, s.col, s.row, s.left, s.top, heights)
             /\ storage' = Stringify(placedFlags')
             /\ nextId' = nextId + 1
             /\ last' = [NoOp EXCEPT !.op = "autoPlaceFlag",
                                     !.ok = (flagType \in Inventory),
                                     !.fallback = s.fallback, !.attempts = s.attempts,
                                     !.col = s.col, !.row = s.row, !.id = nextId,
                                     !.rollover = s.rollover, !.from = gridPosition,
                                     !.afterRollover =
                                       (last.op = "autoPlaceFlag" /\ last.rollover)]
  /\ UNCHANGED <<playArea, isMobile, phase, pendingFlags>>

\* Faulty variant: the cursor and columnHeights are left as they were.
addFlagSkipsReconcile(flagType, left, top) ==
  /\ phase = "ready"
  /\ IF ~InventoryHas(flagType)
     THEN /\ last' = [NoOp EXCEPT !.op = "addFlag"]
          /\ UNCHANGED <<placedFlags, gridPosition, columnHeights, storage, nextId>>
     ELSE LET g == Config
              l == IF isMobile THEN ClampLeft(g, left) ELSE left
              t == IF isMobile THEN ClampTop(g, top) ELSE top
              newFlag == [id |-> nextId, type |-> flagType, left |-> l, top |-> t]
          IN /\ placedFlags' = Append(placedFlags, newFlag)
             /\ UNCHANGED <<gridPosition, columnHeights>>
             /\ storage' = Stringify(placedFlags')
             /\ nextId' = nextId + 1
             /\ last' = [NoOp EXCEPT !.op = "addFlag", !.ok = (flagType \in Inventory),
                                     !.id = nextId,
                                     !.left = left, !.top = top]
  /\ UNCHANGED <<playArea, isMobile, phase, pendingFlags>>

\* Faulty variant: the new item is put in front of the collection.
addFlagPrepends(flagType, left, top) ==
  /\ phase = "ready"
  /\ IF ~InventoryHas(flagType)
     THEN /\ last' = [NoOp EXCEPT !.op = "addFlag"]
          /\ UNCHANGED <<placedFlags, gridPosition, columnHeights, storage, nextId>>
     ELSE LET g == Config
              l == IF isMobile THEN ClampLeft(g, left) ELSE left
              t == IF isMobile THEN ClampTop(g, top) ELSE top
              newFlag == [id |-> nextId, type |-> flagType, left |-> l, top |-> t]
              r == updateGridPositionFromExistingFlags(Append(placedFlags, newFlag), g)
          IN /\ placedFlags' = <<newFlag>> \o placedFlags
             /\ gridPosition' = r.pos
             /\ columnHeights' = r.heights
             /\ storage' = Stringify(placedFlags')
             /\ nextId' = nextId + 1
             /\ last' = [NoOp EXCEPT !.op = "addFlag", !.ok = (flagType \in Inventory),
                                     !.id = nextId,
                                     !.left = left, !.top = top]
  /\ UNCHANGED <<playArea, isMobile, phase, pendingFlags>>

addFlag(flagType, left, top) ==
  /\ phase = "ready"
  /\ IF ~InventoryHas(flagType)
     THEN /\ last' = [NoOp EXCEPT !.op = "addFlag"]
          /\ UNCHANGED <<placedFlags, gridPosition, columnHeights, storage, nextId>>
     ELSE LET g == Config
              l == IF isMobile THEN ClampLeft(g, left) ELSE left
              t == IF isMobile THEN ClampTop(g, top) ELSE top
              newFlag == [id |-> nextId, type |-> flagType, left |-> l, top |-> t]
              r == updateGridPositionFromExistingFlags(Append(placedFlags, newFlag), g)
          IN /\ placedFlags' = Append(placedFlags, newFlag)
             /\ gridPosition' = r.pos
             /\ columnHeights' = r.heights
             /\ storage' = Stringify(placedFlags')
             /\ nextId' = nextId + 1
             /\ last' = [NoOp EXCEPT !.op = "addFlag", !.ok = (flagType \in Inventory),
                                     !.id = nextId,
                                     !.left = left, !.top = top]
  /\ UNCHANGED <<playArea, isMobile, phase, pendingFlags>>

\* Faulty variant: the point is clamped on every device.
moveFlagAlwaysClamps(id, left, top) ==
  /\ phase = "ready"
  /\ LET g == Config
         updatedFlags == MapMove(placedFlags, id, ClampLeft(g, left), ClampTop(g, top))
         r == updateGridPositionFromExistingFlags(updatedFlags, g)
     IN /\ placedFlags' = updatedFlags
        /\ gridPosition' = r.pos
        /\ columnHeights' = r.heights
        /\ storage' = Stringify(updatedFlags)
        /\ last' = IF HasId(placedFlags, id)
                   THEN [NoOp EXCEPT !.op = "moveFlag", !.ok = TRUE, !.id = id,
                                     !.left = left, !.top = top]
                   ELSE [NoOp EXCEPT !.op = "moveFlag"]
  /\ UNCHANGED <<playArea, isMobile, phase, pendingFlags, nextId>>

moveFlag(id, left, top) ==
  /\ phase = "ready"
  /\ LET g == Config
         l == IF isMobile THEN ClampLeft(g, left) ELSE left
         t == IF isMobile THEN ClampTop(g, top) ELSE top
         updatedFlags == MapMove(placedFlags, id, l, t)
         r == updateGridPositionFromExistingFlags(updatedFlags, g)
     IN /\ placedFlags' = updatedFlags
        /\ gridPosition' = r.pos
        /\ columnHeights' = r.heights
        /\ storage' = Stringify(updatedFlags)
        /\ last' = IF HasId(placedFlags, id)
                   THEN [NoOp EXCEPT !.op = "moveFlag", !.ok = TRUE, !.id = id,
                                     !.left = left, !.top = top]
                   ELSE [NoOp EXCEPT !.op = "moveFlag"]
  /\ UNCHANGED <<playArea, isMobile, phase, pendingFlags, nextId>>

\* Faulty variant: the cursor is stepped from its previous value instead of
\* being derived from the collection.
removeFlagStepsCursor(id) ==
  /\ phase = "ready"
  /\ LET updatedFlags == FilterOut(placedFlags, id)
         r == updateGridPositionFromExistingFlags(updatedFlags, Config)
     IN /\ placedFlags' = updatedFlags
        /\ gridPosition' = IF updatedFlags = <<>> THEN r.pos
                           ELSE [col |-> gridPosition.col, row |-> gridPosition.row + 1]
        /\ columnHeights' = r.heights
        /\ storage' = Stringify(updatedFlags)
        /\ last' = IF HasId(placedFlags, id)
                   THEN [NoOp EXCEPT !.op = "removeFlag", !.ok = TRUE, !.id = id]
                   ELSE [NoOp EXCEPT !.op = "removeFlag"]
  /\ UNCHANGED <<playArea, isMobile, phase, pendingFlags, nextId>>

removeFlag(id) ==
  /\ phase = "ready"
  /\ LET updatedFlags == FilterOut(placedFlags, id)
         r == updateGridPositionFromExistingFlags(updatedFlags, Config)
     IN /\ placedFlags' = updatedFlags
        /\ gridPosition' = r.pos
        /\ columnHeights' = r.heights
        /\ storage' = Stringify(updatedFlags)
        /\ last' = IF HasId(placedFlags, id)
                   THEN [NoOp EXCEPT !.op = "removeFlag", !.ok = TRUE, !.id = id]
                   ELSE [NoOp EXCEPT !.op = "removeFlag"]
  /\ UNCHANGED <<playArea, isMobile, phase, pendingFlags, nextId>>

\* Faulty variant: columnHeights is not reset.
clearBoardKeepsHeights ==
  /\ phase = "ready"
  /\ placedFlags' = <<>>
  /\ gridPosition' = [col |-> 0, row |-> 0]
  /\ storage' = Stringify(placedFlags')
  /\ last' = [NoOp EXCEPT !.op = "clearBoard", !.ok = TRUE]
  /\ UNCHANGED <<columnHeights, playArea, isMobile, phase, pendingFlags, nextId>>

clearBoard ==
  /\ phase = "ready"
  /\ placedFlags' = <<>>
  /\ gridPosition' = [col |-> 0, row |-> 0]
  /\ columnHeights' = EmptyHeights
  /\ storage' = Stringify(placedFlags')
  /\ last' = [NoOp EXCEPT !.op = "clearBoard", !.ok = TRUE]
  /\ UNCHANGED <<playArea, isMobile, phase, pendingFlags, nextId>>

\* ---------------------------------------------------------------------- mount
\* kind is "array" when flags holds the value; any other kind is the parsed
\* non-array value itself.
NoPending == [set |-> FALSE, kind |-> "array", flags |-> <<>>]
\* placedFlags.map(...) in the canvas components throws for a value that is
\* not an array.
RenderThrows(kind) == kind # "array"

\* The load effect: reads the saved text, queues setPlacedFlags(parsed) and
\* reconciles the cursor from the parsed flags.  A parsed null makes
\* flags.length throw inside the try block, after the update was queued; a
\* number or an object has no length and takes the empty-collection branch.
LoadEffect ==
  /\ phase = "load"
  /\ IF storage.kind = "array"
     THEN LET parsedFlags == ParseArray(storage)
              r == updateGridPositionFromExistingFlags(parsedFlags, Config)
          IN /\ pendingFlags' = [set |-> TRUE, kind |-> "array", flags |-> parsedFlags]
             /\ gridPosition' = r.pos
             /\ columnHeights' = r.heights
     ELSE IF storage \in NonArrayTexts
          THEN /\ pendingFlags' = [set |-> TRUE, kind |-> storage.kind, flags |-> <<>>]
               /\ IF storage = JsonNull
                  THEN UNCHANGED <<gridPosition, columnHeights>>
                  ELSE /\ gridPosition' = [col |-> 0, row |-> 0]
                       /\ columnHeights' = EmptyHeights
          ELSE UNCHANGED <<pendingFlags, gridPosition, columnHeights>>
  /\ phase' = "save"
  /\ last' = [NoOp EXCEPT !.op = "load", !.ok = (storage.kind = "array")]
  /\ UNCHANGED <<placedFlags, playArea, isMobile, storage, nextId>>

\* The save effect of the first render: placedFlags is still the initial [].
SaveEffect ==
  /\ phase = "save"
  /\ storage' = Stringify(placedFlags)
  /\ phase' = "render"
  /\ UNCHANGED <<placedFlags, gridPosition, columnHeights, playArea, isMobile,
                 pendingFlags, nextId, last>>

\* The re-render the queued update causes, and its save effect.  When the
\* render throws nothing is committed and no effect runs: placedFlags keeps
\* the last committed collection and pendingFlags the value that was set.
Rerender ==
  /\ phase = "render"
  /\ IF pendingFlags.set /\ RenderThrows(pendingFlags.kind)
     THEN /\ phase' = "crashed"
          /\ UNCHANGED <<placedFlags, storage, pendingFlags>>
     ELSE /\ IF pendingFlags.set
             THEN /\ placedFlags' = pendingFlags.flags
                  /\ storage' = Stringify(placedFlags')
             ELSE UNCHANGED <<placedFlags, storage>>
          /\ pendingFlags' = NoPending
          /\ phase' = "ready"
  /\ UNCHANGED <<gridPosition, columnHeights, playArea, isMobile, nextId, last>>

\* The page is loaded again: a new provider over the same localStorage.
Reload ==
  /\ phase \in {"ready", "crashed"}
  /\ placedFlags' = <<>>
  /\ gridPosition' = [col |-> 0, row |-> 0]
  /\ columnHeights' = EmptyHeights
  /\ pendingFlags' = NoPending
  /\ phase' = "load"
  /\ last' = NoOp
  /\ UNCHANGED <<playArea, isMobile, storage, nextId>>

\* -------------------------------------------------------------- specifications
Init ==
  /\ \E geo \in SomeGeometries : playArea = geo.area /\ isMobile = geo.mobile
  /\ placedFlags = <<>>
  /\ gridPosition = [col |-> 0, row |-> 0]
  /\ columnHeights = EmptyHeights
  /\ storage \in {Missing, Malformed} \cup NonArrayTexts
  /\ phase = "load"
  /\ pendingFlags = NoPending
  /\ nextId = 1
  /\ last = NoOp

AutoPlaceStep == \E flagType \in FlagTypes :
  (flagType \in Inventory => nextId <= MaxFlags) /\ autoPlaceFlag(flagType)
AddStep == \E flagType \in FlagTypes : \E p \in DropPoints(Config) :
  (flagType \in Inventory => nextId <= MaxFlags) /\ addFlag(flagType, p[1], p[2])
MoveStep == \E id \in Ids : \E p \in DropPoints(Config) : moveFlag(id, p[1], p[2])
RemoveStep == \E id \in Ids : removeFlag(id)

Next ==
  \/ LoadEffect
  \/ SaveEffect
  \/ Rerender
  \/ AutoPlaceStep
  \/ AddStep
  \/ MoveStep
  \/ RemoveStep
  \/ clearBoard
  \/ Reload

Spec == Init /\ [][Next]_vars

\* autoPlace calls only, from an empty board of a mounted provider.
InitAuto ==
  /\ \E geo \in Geometries : playArea = geo.area /\ isMobile = geo.mobile
  /\ placedFlags = <<>>
  /\ gridPosition = [col |-> 0, row |-> 0]
  /\ columnHeights = EmptyHeights
  /\ storage = Stringify(<<>>)
  /\ phase = "ready"
  /\ pendingFlags = NoPending
  /\ nextId = 1
  /\ last = NoOp

NextAuto == \E flagType \in FlagTypes :
  (flagType \in Inventory => nextId <= MaxAuto) /\ autoPlaceFlag(flagType)

SpecAuto == InitAuto /\ [][NextAuto]_vars

\* getGridConfig over canvas sizes: the canvas is absent or measures one of
\* these sizes (even widths keep the centred startX an integer), and autoPlace
\* reads the configuration.
CanvasWidths == {0, 94, 96, 200, 270, 272, 320, 400}
CanvasHeights == {0, 102, 103, 134, 135, 300, 480, 620}
GridGeometries ==
  { [area |-> NoNode, mobile |-> m] : m \in BOOLEAN }
    \cup { [area |-> Rect(w, h), mobile |-> m] :
             w \in CanvasWidths, h \in CanvasHeights, m \in BOOLEAN }

InitGrid ==
  /\ \E geo \in GridGeometries : playArea = geo.area /\ isMobile = geo.mobile
  /\ placedFlags = <<>>
  /\ gridPosition = [col |-> 0, row |-> 0]
  /\ columnHeights = EmptyHeights
  /\ storage = Stringify(<<>>)
  /\ phase = "ready"
  /\ pendingFlags = NoPending
  /\ nextId = 1
  /\ last = NoOp

NextGrid == \E flagType \in FlagTypes :
  (flagType \in Inventory => nextId <= MaxGridItems) /\ autoPlaceFlag(flagType)

SpecGrid == InitGrid /\ [][NextGrid]_vars

\* Drops and autoPlace calls on a mounted provider: a drop leaves the cursor
\* where reconcile puts it, also past the right or the bottom boundary, and
\* autoPlace starts from there.
DropGeometries ==
  { [area |-> Rect(250, 150), mobile |-> TRUE],
    [area |-> Rect(200, 300), mobile |-> TRUE],
    [area |-> Rect(300, 300), mobile |-> FALSE],
    [area |-> Rect(300, 120), mobile |-> FALSE] }

\* Drop points: on slot (0, 0), on slot (2, 0), far right near the top, and
\* far outside.
DropTargets(g) ==
  { <<SlotLeft(g, 0), SlotTop(g, 0)>>, <<SlotLeft(g, 2), SlotTop(g, 0)>>,
    <<1000, 5>>, <<1000, 1000>> }

InitDrop ==
  /\ \E geo \in DropGeometries : playArea = geo.area /\ isMobile = geo.mobile
  /\ placedFlags = <<>>
  /\ gridPosition = [col |-> 0, row |-> 0]
  /\ columnHeights = EmptyHeights
  /\ storage = Stringify(<<>>)
  /\ phase = "ready"
  /\ pendingFlags = NoPending
  /\ nextId = 1
  /\ last = NoOp

DropStep == \E flagType \in FlagTypes : \E p \in DropTargets(Config) :
  (flagType \in Inventory => nextId <= MaxDropFlags) /\ addFlag(flagType, p[1], p[2])
AutoAfterDropStep == \E flagType \in FlagTypes :
  (flagType \in Inventory => nextId <= MaxDropFlags + 1) /\ autoPlaceFlag(flagType)

NextDrop ==
  \/ DropStep
  \/ AutoAfterDropStep

SpecDrop == InitDrop /\ [][NextDrop]_vars

\* ===================================================================== claims
Positions(flags) == { <<flags[i].left, flags[i].top>> : i \in 1..Len(flags) }
DistinctPositions(flags) ==
  \A i, j \in 1..Len(flags) : i < j =>
    <<flags[i].left, flags[i].top>> # <<flags[j].left, flags[j].top>>
\* The grid slots autoPlace may use: rows below maxItemsPerColumn whose
\* position is within the canvas boundary.
InBoundsSlots(g) ==
  { s \in (0..Max(0, g.canvasWidth \div g.columnWidth)) \X (0..(g.maxItemsPerColumn - 1)) :
      ~wouldExceedCanvasBoundary(SlotLeft(g, s[1]), SlotTop(g, s[2]), g) }
SlotPoint(g, s) == <<SlotLeft(g, s[1]), SlotTop(g, s[2])>>
FreeSlotExists(flags, g) ==
  \E s \in InBoundsSlots(g) : SlotPoint(g, s) \notin Positions(flags)
\* Where the last-resort branch of autoPlaceFlag puts an item.
FallbackPoint(g) == <<g.startX + g.itemWidth \div 2 + g.safetyMargin,
                      g.startY + g.itemHeight \div 2 + g.safetyMargin>>
LastFlag == placedFlags[Len(placedFlags)]
FlagWithId(id) == CHOOSE f \in { placedFlags[i] : i \in 1..Len(placedFlags) } : f.id = id
\* The column reconcile assigns to a flag.
ColumnOf(g, flag) == (flag.left - g.startX) \div g.columnWidth

NoFallbackSoFar == FallbackPoint(Config) \notin Positions(placedFlags)

\* C1 (as stated): after any number of autoPlace calls from an empty board,
\* no two placed items share the same (left, top); the documented stacking of
\* the retry-cap fallback is set aside.
C1_NoSharedPosition == NoFallbackSoFar => DistinctPositions(placedFlags)

\* C1 (amended): from an empty board under fixed geometry, as long as no more
\* items were auto-placed than the grid has in-bounds slots and no call ended
\* in the retry-cap fallback, no two placed items share the same (left, top).
C1_NoSharedPositionWithinCapacity ==
  (Len(placedFlags) <= Cardinality(InBoundsSlots(Config)) /\ NoFallbackSoFar)
  => DistinctPositions(placedFlags)

\* A whole grid of more than one column was filled, each item on its own slot.
C1_Witness ==
  /\ Len(placedFlags) = Cardinality(InBoundsSlots(Config))
  /\ Len(placedFlags) >= 6
  /\ \E i \in 1..Len(placedFlags) : ColumnOf(Config, placedFlags[i]) >= 2
  /\ last.op = "autoPlaceFlag" /\ last.ok

\* C2: every autoPlace call with a known key that did not end in the retry-cap
\* fallback commits an item whose four edges are within the safety-margined
\* canvas of the GridConfig in effect.
C2_AutoPlacedWithinBounds ==
  (last.op = "autoPlaceFlag" /\ last.ok /\ ~last.fallback)
  => ~wouldExceedCanvasBoundary(LastFlag.left, LastFlag.top, Config)

\* An autoPlace call right after a manual edit whose cursor slot was out of
\* bounds and which the boundary-avoidance pass moved into the canvas.
C2_Witness ==
  /\ last.op = "autoPlaceFlag" /\ last.ok /\ ~last.fallback
  /\ last.attempts > 0
  /\ Len(placedFlags) >= 2

\* Rows whose slot can be within the canvas: no slot below them is.
RowsOnCanvas(g) == 0..Max(0, g.canvasHeight \div (g.itemHeight + g.verticalSpacing))
SlotInBounds(g, c, r) ==
  ~wouldExceedCanvasBoundary(SlotLeft(g, c), SlotTop(g, r), g)
FilledBefore(g, j, c, r) ==
  \E i \in 1..(j - 1) :
    <<placedFlags[i].left, placedFlags[i].top>> = SlotPoint(g, <<c, r>>)
TopsIncreaseWithinColumns(g) ==
  \A i, j \in 1..Len(placedFlags) :
    (i < j /\ ColumnOf(g, placedFlags[i]) = ColumnOf(g, placedFlags[j]))
      => placedFlags[j].top > placedFlags[i].top
FirstFourInColumn0 ==
  (isMobile /\ playArea = Rect(320, 480))
    => \A i \in 1..Min(4, Len(placedFlags)) : ColumnOf(Config, placedFlags[i]) = 0

\* C3 (as stated): autoPlace calls from an empty board fill column by column,
\* top to bottom: no item lands in column c+1 before every in-bounds row of
\* column c is occupied, within a column every new item is lower than the
\* previous one, and on the compact 320x480 canvas the first four items land
\* in column 0; runs with a retry-cap fallback are set aside.
C3_ColumnByColumn ==
  /\ NoFallbackSoFar
     => /\ \A j \in 1..Len(placedFlags) :
             LET c == ColumnOf(Config, placedFlags[j]) - 1
             IN c >= 0 =>
                  \A r \in RowsOnCanvas(Config) :
                    SlotInBounds(Config, c, r) => FilledBefore(Config, j, c, r)
        /\ TopsIncreaseWithinColumns(Config)
  /\ FirstFourInColumn0

\* C3 (amended): the same, for the rows below maxItemsPerColumn, and as long as
\* no more items were auto-placed than the grid has in-bounds slots and no
\* call ended in the retry-cap fallback.
C3_ColumnByColumnWithinCapacity ==
  /\ (Len(placedFlags) <= Cardinality(InBoundsSlots(Config)) /\ NoFallbackSoFar)
     => /\ \A j \in 1..Len(placedFlags) :
             LET c == ColumnOf(Config, placedFlags[j]) - 1
             IN c >= 0 =>
                  \A r \in 0..(Config.maxItemsPerColumn - 1) :
                    SlotInBounds(Config, c, r) => FilledBefore(Config, j, c, r)
        /\ TopsIncreaseWithinColumns(Config)
  /\ FirstFourInColumn0

\* On the compact 320x480 canvas the ninth item opened column 1.
C3_Witness ==
  /\ isMobile /\ playArea = Rect(320, 480)
  /\ Len(placedFlags) = 9
  /\ ColumnOf(Config, placedFlags[9]) = 1
  /\ ColumnOf(Config, placedFlags[8]) = 0

ClampLow(g, extent) == g.safetyMargin + extent \div 2
ClampHigh(g, canvas, extent) == canvas - g.safetyMargin - extent \div 2
Between(lo, x, hi) == lo <= x /\ x <= hi
ManualCommit == last.op \in {"addFlag", "moveFlag"} /\ last.ok

\* C4 (as stated): on a compact device placeAt with a known key and move with
\* an existing id commit a centre inside [safetyMargin + half,
\* canvasDimension - safetyMargin - half] on both axes, for every GridConfig.
C4_ClampedIntoCanvas ==
  (isMobile /\ ManualCommit) =>
    LET g == Config
        f == FlagWithId(last.id)
    IN /\ Between(ClampLow(g, g.itemWidth), f.left,
                  ClampHigh(g, g.canvasWidth, g.itemWidth))
       /\ Between(ClampLow(g, g.itemHeight), f.top,
                  ClampHigh(g, g.canvasHeight, g.itemHeight))

\* C4 (amended): on a compact device whose canvas is at least
\* item size + 2 * safetyMargin wide and high, placeAt with a known key and
\* move with an existing id commit the given point clamped component-wise
\* into that interval; (5, 5) with margin 16 and item size 42 commits (37, 37).
C4_ClampedWhenCanvasFits ==
  (isMobile /\ ManualCommit) =>
    LET g == Config
        f == FlagWithId(last.id)
        loX == ClampLow(g, g.itemWidth)
        hiX == ClampHigh(g, g.canvasWidth, g.itemWidth)
        loY == ClampLow(g, g.itemHeight)
        hiY == ClampHigh(g, g.canvasHeight, g.itemHeight)
    IN (loX <= hiX /\ loY <= hiY) =>
         /\ Between(loX, f.left, hiX) /\ Between(loY, f.top, hiY)
         /\ f.left = Max(loX, Min(hiX, last.left))
         /\ f.top = Max(loY, Min(hiY, last.top))
         /\ (last.left = 5 /\ last.top = 5) => (f.left = 37 /\ f.top = 37)

\* An item was moved to (5, 5) on a compact canvas and sits at (37, 37).
C4_Witness ==
  /\ isMobile /\ last.op = "moveFlag" /\ last.ok
  /\ last.left = 5 /\ last.top = 5
  /\ Config.canvasWidth >= 74 /\ Config.canvasHeight >= 74
  /\ FlagWithId(last.id).left = 37 /\ FlagWithId(last.id).top = 37

NewFlagPoint == LET f == placedFlags'[Len(placedFlags')] IN <<f.left, f.top>>
AutoPlaceCommits == last'.op = "autoPlaceFlag" /\ last'.ok

\* C5: the autoPlace call that follows a placeAt, move or remove does not commit
\* its item at the position of an item already on the board, whenever an
\* in-bounds grid slot is unoccupied.
C5_AutoPlaceAfterEditAvoidsItems ==
  [][ (/\ \/ last.op = "addFlag" /\ last.ok
          \/ last.op \in {"moveFlag", "removeFlag"}
       /\ AutoPlaceCommits
       /\ FreeSlotExists(placedFlags, Config))
      => NewFlagPoint \notin Positions(placedFlags) ]_vars

\* C6: after the saved collection is loaded again and reconciled, the next
\* autoPlace call commits at a position different from that of every reloaded
\* item (stated for boards with an unoccupied in-bounds slot).
C6_AutoPlaceAfterReloadAvoidsItems ==
  [][ (/\ last.op = "load" /\ last.ok /\ phase = "ready"
       /\ AutoPlaceCommits
       /\ FreeSlotExists(placedFlags, Config))
      => NewFlagPoint \notin Positions(placedFlags) ]_vars

\* C7: clearAll leaves the collection empty, the cursor at (0, 0) and
\* columnHeights empty.
C7_ClearBoardResets ==
  last.op = "clearBoard" =>
    /\ placedFlags = <<>>
    /\ gridPosition = [col |-> 0, row |-> 0]
    /\ columnHeights = EmptyHeights

\* The board was cleared after items had been placed on it.
C7_Witness == last.op = "clearBoard" /\ nextId > 2

MissingIdCall == last'.op \in {"moveFlag", "removeFlag"} /\ ~last'.ok

\* C8: move and remove with an id that matches no placed item leave the
\* collection unchanged: same items, same positions, same order.
C8_MissingIdKeepsCollection ==
  [][ MissingIdCall => placedFlags' = placedFlags ]_vars

\* move was called with an id that is not on a non-empty board.
C8_Witness == last.op = "moveFlag" /\ ~last.ok /\ Len(placedFlags) >= 2

\* C9: move and remove with an id that matches no placed item change neither
\* the collection nor the cursor nor columnHeights.
C9_MissingIdIsNoOp ==
  [][ MissingIdCall => UNCHANGED <<placedFlags, gridPosition, columnHeights>> ]_vars

UnknownKeyCall == last'.op \in {"autoPlaceFlag", "addFlag"} /\ ~last'.ok

\* C10: autoPlace and placeAt with a key that is not in the catalog add no
\* item and leave the cursor and columnHeights unchanged.
C10_UnknownKeyIsNoOp ==
  [][ UnknownKeyCall => UNCHANGED <<placedFlags, gridPosition, columnHeights>> ]_vars

\* placeAt was called with an absent key on a non-empty board.
C10_Witness ==
  /\ last.op = "addFlag" /\ ~last.ok
  /\ Len(placedFlags) >= 1 /\ gridPosition # [col |-> 0, row |-> 0]

FallbackCommit == last.op = "autoPlaceFlag" /\ last.ok /\ last.fallback

\* C11 (as stated): when no boundary-respecting slot is found within the
\* retry cap, autoPlace still adds the item, at the centre of grid slot
\* (column 0, row 0), and its bookkeeping treats the item as slot (0, 0).
C11_LastResortAtFirstSlotCentre ==
  FallbackCommit =>
    /\ LastFlag.id = last.id
    /\ <<LastFlag.left, LastFlag.top>> = SlotPoint(Config, <<0, 0>>)
    /\ last.col = 0 /\ last.row = 0

\* C11 (amended): when no boundary-respecting slot is found within the retry
\* cap, autoPlace still appends the item; it commits it at the centre of slot
\* (0, 0) shifted by safetyMargin on both axes, records its bottom edge
\* under column 0, and advances the cursor as after filling slot (0, 0): to
\* (0, 1), to (1, 0) or to row 0 of a tracked column.
C11_LastResortAtShiftedFirstSlot ==
  [][ (last'.op = "autoPlaceFlag" /\ last'.ok /\ last'.fallback) =>
        LET g == Config
            f == placedFlags'[Len(placedFlags')]
        IN /\ Len(placedFlags') = Len(placedFlags) + 1
           /\ SubSeq(placedFlags', 1, Len(placedFlags)) = placedFlags
           /\ f.id = last'.id
           /\ f.left = SlotLeft(g, 0) + g.safetyMargin
           /\ f.top = SlotTop(g, 0) + g.safetyMargin
           /\ last'.col = 0 /\ last'.row = 0
           /\ 0 \in DOMAIN columnHeights'
           /\ columnHeights'[0] >= f.top + g.itemHeight \div 2
           /\ \/ gridPosition' = [col |-> 0, row |-> 1]
              \/ gridPosition' = [col |-> 1, row |-> 0]
              \/ gridPosition'.row = 0 /\ gridPosition'.col \in DOMAIN columnHeights' ]_vars

\* Two autoPlace calls in a row ended in the last-resort branch.
C11_Witness ==
  /\ FallbackCommit /\ last.attempts = maxAttempts - 1
  /\ Len(placedFlags) >= 2
  /\ placedFlags[Len(placedFlags) - 1].left = LastFlag.left
  /\ placedFlags[Len(placedFlags) - 1].top = LastFlag.top

\* C12: at startup, saved data that is missing, unparsable, or parsable but
\* not an array leaves an empty collection and the cursor at (0, 0), and the
\* application keeps running.
C12_BadSavedDataGivesEmptyBoard ==
  (last.op = "load" /\ ~last.ok) =>
    /\ phase # "crashed"
    /\ placedFlags = <<>>
    /\ gridPosition = [col |-> 0, row |-> 0]

Mutations == {"autoPlaceFlag", "addFlag", "moveFlag", "removeFlag", "clearBoard"}

\* C13: once a mutation (autoPlace, placeAt, move, remove, clearAll) and its
\* save have run, the text stored under the layout key is the serialization
\* of the whole current collection: one entry per item, in collection order,
\* and parsing it gives the collection back.
C13_StorageHoldsWholeCollection ==
  (last.op \in Mutations /\ phase = "ready") =>
    /\ storage.kind = "array"
    /\ Len(storage.items) = Len(placedFlags)
    /\ \A i \in 1..Len(placedFlags) :
         storage.items[i] = <<placedFlags[i].id, placedFlags[i].type,
                              placedFlags[i].left, placedFlags[i].top>>
    /\ ParseArray(storage) = placedFlags

\* The first of three items was moved and the stored text shows it at its
\* new position, ahead of the two others.
C13_Witness ==
  /\ last.op = "moveFlag" /\ last.ok /\ phase = "ready"
  /\ Len(placedFlags) = 3 /\ placedFlags[1].id = last.id
  /\ placedFlags[1].left # placedFlags[2].left
  /\ storage.kind = "array" /\ Len(storage.items) = 3
  /\ storage.items[1][3] = placedFlags[1].left

FirstSlotInBounds(g) == SlotInBounds(g, 0, 0)

\* C14 (as stated): every GridConfig the calculator returns, for every canvas
\* width and height and both device classes, has maxItemsPerColumn >= 1 and
\* its slot (column 0, row 0) does not exceed the canvas boundary.
C14_FirstSlotAlwaysValid ==
  /\ Config.maxItemsPerColumn >= 1
  /\ FirstSlotInBounds(Config)

\* C14 (amended): every GridConfig the calculator returns has
\* maxItemsPerColumn >= 1; its slot (0, 0) is within the canvas boundary for
\* the fixed fallback configuration and for a measured canvas of at least
\* 95 x 103 on a compact device or 272 x 135 on a regular device, and for no
\* smaller measured canvas.
C14_FirstSlotValidOnLargeEnoughCanvas ==
  /\ Config.maxItemsPerColumn >= 1
  /\ FirstSlotInBounds(Config) <=>
       \/ ~playArea.node
       \/ isMobile /\ playArea.width >= 95 /\ playArea.height >= 103
       \/ ~isMobile /\ playArea.width >= 272 /\ playArea.height >= 135

\* autoPlace read the configuration of a regular canvas of the smallest
\* sufficient size and used slot (0, 0) without a retry.
C14_Witness ==
  /\ ~isMobile /\ playArea = Rect(272, 135)
  /\ FirstSlotInBounds(Config) /\ Config.maxItemsPerColumn = 1
  /\ last.op = "autoPlaceFlag" /\ last.ok /\ last.attempts = 0
  /\ <<LastFlag.left, LastFlag.top>> = SlotPoint(Config, <<0, 0>>)

GeometryUnavailable(area) == ~area.node \/ area.width <= 0 \/ area.height <= 0

\* C15: whenever the canvas geometry is unavailable, including a canvas
\* element that exists but measures width <= 0 or height <= 0, the calculator
\* returns the fixed fallback GridConfig: fallback start offsets, fallback
\* capacity and a 320 x 480 canvas.
C15_FallbackConfigWhenUnmeasurable ==
  GeometryUnavailable(playArea) =>
    /\ Config.startX = (IF isMobile THEN 40 ELSE 80)
    /\ Config.startY = (IF isMobile THEN 45 ELSE 55)
    /\ Config.maxItemsPerColumn = (IF isMobile THEN 8 ELSE 5)
    /\ Config.canvasWidth = 320 /\ Config.canvasHeight = 480

\* C16: on a regular device placeAt with a known key and move with an existing
\* id commit exactly the (left, top) they are given, unclamped, also when the
\* point is outside the canvas or negative.
C16_RegularDeviceKeepsPoint ==
  (~isMobile /\ ManualCommit) =>
    /\ FlagWithId(last.id).left = last.left
    /\ FlagWithId(last.id).top = last.top

\* On a regular device an item was moved to a point with a negative
\* coordinate, outside the canvas, and is stored there.
C16_Witness ==
  /\ ~isMobile /\ last.op = "moveFlag" /\ last.ok
  /\ last.top < 0
  /\ wouldExceedCanvasBoundary(last.left, last.top, Config)
  /\ FlagWithId(last.id).top < 0

\* The last call ended with reconcile run on the collection now on the board.
AfterReconcile ==
  \/ last.op \in {"moveFlag", "removeFlag"}
  \/ last.op = "addFlag" /\ last.ok
  \/ last.op = "load" /\ last.ok /\ phase = "ready"

C18_CachedCursorIsReconciledCursor ==
  gridPosition = updateGridPositionFromExistingFlags(placedFlags, Config).pos

\* The columns (>= 0) that hold an item, and the lowest bottom edge in one.
OccupiedColumns(g) ==
  { c \in { ColumnOf(g, placedFlags[i]) : i \in 1..Len(placedFlags) } : c >= 0 }
BottomEdges(g, c) ==
  { placedFlags[i].top + g.itemHeight \div 2 :
      i \in { k \in 1..Len(placedFlags) : ColumnOf(g, placedFlags[k]) = c } }
MaxBottomEdge(g, c) == CHOOSE b \in BottomEdges(g, c) : \A x \in BottomEdges(g, c) : x <= b

\* C19 (as stated): under fixed geometry, after autoPlace, placeAt, move,
\* remove and clearAll, columnHeights has an entry for exactly the columns
\* floor((left - startX) / columnWidth) >= 0 that hold an item, each entry is
\* the largest bottom edge (top + itemHeight / 2) among the items of its
\* column, and autoPlace records the item it committed under the column of
\* the slot it used.
C19_ColumnHeightsAreMaxBottomEdges ==
  phase = "ready" =>
    /\ DOMAIN columnHeights = OccupiedColumns(Config)
    /\ \A c \in DOMAIN columnHeights : columnHeights[c] = MaxBottomEdge(Config, c)
    /\ (last.op = "autoPlaceFlag" /\ last.ok) =>
         /\ last.col = ColumnOf(Config, LastFlag)
         /\ last.col \in DOMAIN columnHeights
         /\ columnHeights[last.col] >= LastFlag.top + Config.itemHeight \div 2

\* C19 (amended): the same, except that an entry is never negative: it is
\* the largest bottom edge among the items of its column, or 0 when every
\* item of the column lies above the canvas with a negative bottom edge.
C19_ColumnHeightsMatchItems ==
  phase = "ready" =>
    /\ DOMAIN columnHeights = OccupiedColumns(Config)
    /\ \A c \in DOMAIN columnHeights :
         columnHeights[c] = Max(0, MaxBottomEdge(Config, c))
    /\ (last.op = "autoPlaceFlag" /\ last.ok) =>
         /\ last.col = ColumnOf(Config, LastFlag)
         /\ last.col \in DOMAIN columnHeights
         /\ columnHeights[last.col] >= LastFlag.top + Config.itemHeight \div 2

\* Three items, two of them in one column and the newest above the older one,
\* a third in another column.
C19_Witness ==
  /\ phase = "ready" /\ Len(placedFlags) = 3
  /\ Cardinality(DOMAIN columnHeights) = 2
  /\ \A c \in DOMAIN columnHeights : columnHeights[c] > 0
  /\ \E i, j \in 1..3 :
       /\ i < j
       /\ ColumnOf(Config, placedFlags[i]) = ColumnOf(Config, placedFlags[j])
       /\ placedFlags[j].top < placedFlags[i].top
       /\ columnHeights[ColumnOf(Config, placedFlags[i])]
            = placedFlags[i].top + Config.itemHeight \div 2

\* A board whose only column holds nothing but an item above the canvas: the
\* entry of the column is 0.
C19_WitnessAboveCanvas ==
  /\ phase = "ready" /\ last.op = "addFlag" /\ last.ok
  /\ DOMAIN columnHeights = {0}
  /\ MaxBottomEdge(Config, 0) < 0
  /\ columnHeights[0] = 0

LowestColumn(S) == CHOOSE c \in S : \A d \in S : c <= d
\* The occupied column with the smallest largest bottom edge, lowest index first.
ShortestOccupiedColumn(g) ==
  LowestColumn({ c \in OccupiedColumns(g) :
                   \A d \in OccupiedColumns(g) :
                     Max(0, MaxBottomEdge(g, c)) <= Max(0, MaxBottomEdge(g, d)) })
\* The first grid row whose top edge is not above the given bottom edge.
FirstRowBelow(g, bottom) ==
  LowestColumn({ r \in 0..(bottom + 1) :
                   g.startY + r * (g.itemHeight + g.verticalSpacing) >= bottom })
FirstEmptyColumn(g) ==
  LowestColumn({ c \in 0..(Len(placedFlags) + 1) : c \notin OccupiedColumns(g) })

\* C20: for a non-empty collection with an occupied column, reconcile puts
\* the cursor in the occupied column with the smallest largest bottom edge
\* (lowest index first), on the first row below that column's lowest item;
\* if that row is not below maxItemsPerColumn, it puts the cursor on row 0 of
\* the lowest-index column that holds no item at all.
C20_ReconciledCursor ==
  (AfterReconcile /\ phase = "ready" /\ OccupiedColumns(Config) # {}) =>
    LET g == Config
        c == ShortestOccupiedColumn(g)
        r == FirstRowBelow(g, Max(0, MaxBottomEdge(g, c)))
    IN gridPosition = IF r >= g.maxItemsPerColumn
                      THEN [col |-> FirstEmptyColumn(g), row |-> 0]
                      ELSE [col |-> c, row |-> r]

ManualEditCommitted == last.op \in {"addFlag", "moveFlag", "removeFlag"} /\ last.ok

\* C21: after placeAt with a known key, or move or remove with an existing
\* id, the cursor and columnHeights are what reconcile yields for the
\* collection the operation committed, under the current GridConfig.
C21_ManualEditReconciles ==
  (ManualEditCommitted /\ phase = "ready") =>
    LET r == updateGridPositionFromExistingFlags(placedFlags, Config)
    IN gridPosition = r.pos /\ columnHeights = r.heights

\* An item was removed from a board that keeps two items; the cursor is
\* away from (0, 0).
C21_Witness ==
  /\ last.op = "removeFlag" /\ last.ok /\ phase = "ready"
  /\ Len(placedFlags) = 2
  /\ gridPosition # [col |-> 0, row |-> 0]
  /\ columnHeights # EmptyHeights

RowHeight(g) == g.itemHeight + g.verticalSpacing
\* The tracked columns the wrap may choose: within the right boundary and
\* with room for an item below the recorded height.
WrapCandidates(g, heights) ==
  { c \in DOMAIN heights :
      /\ ~wouldExceedCanvasBoundary(SlotLeft(g, c), heights[c] + g.itemHeight, g)
      /\ SlotLeft(g, c) <= maxRightPosition(g) }
ShortestCandidate(g, heights) ==
  LowestColumn({ c \in WrapCandidates(g, heights) :
                   \A d \in WrapCandidates(g, heights) : heights[c] <= heights[d] })

PointInBounds(g, left, top) ==
  ~wouldExceedCanvasBoundary(left, top, g) /\ left <= maxRightPosition(g)

\* C23 (as stated): for a cursor (col, row) whose slot is within bounds,
\* autoPlace commits the item at left = startX + col * columnWidth and
\* top = startY + row * (itemHeight + verticalSpacing) + itemHeight / 2.
C23_CommitsAtColumnEdge ==
  [][ LET g == Config
          col == gridPosition.col
          row == gridPosition.row
          edge == g.startX + col * g.columnWidth
          top == g.startY + row * (g.itemHeight + g.verticalSpacing) + g.itemHeight \div 2
      IN (/\ AutoPlaceCommits
          /\ PointInBounds(g, edge, top)
          /\ PointInBounds(g, edge + g.itemWidth \div 2, top))
         => NewFlagPoint = <<edge, top>> ]_vars

\* C23 (amended): for a cursor (col, row) whose slot is within bounds,
\* autoPlace commits the item at left = startX + col * columnWidth +
\* itemWidth / 2 and top = startY + row * (itemHeight + verticalSpacing) +
\* itemHeight / 2, without a retry.
C23_CommitsAtSlotCentre ==
  [][ LET g == Config
          col == gridPosition.col
          row == gridPosition.row
          left == g.startX + col * g.columnWidth + g.itemWidth \div 2
          top == g.startY + row * (g.itemHeight + g.verticalSpacing) + g.itemHeight \div 2
      IN (AutoPlaceCommits /\ PointInBounds(g, left, top))
         => /\ NewFlagPoint = <<left, top>>
            /\ last'.col = col /\ last'.row = row /\ last'.attempts = 0 ]_vars

\* An item was committed without a retry at a slot off the first column and
\* the first row.
C23_Witness ==
  /\ last.op = "autoPlaceFlag" /\ last.ok /\ last.attempts = 0
  /\ last.col >= 2 /\ last.row >= 3
  /\ LastFlag.left = Config.startX + last.col * Config.columnWidth + Config.itemWidth \div 2
  /\ LastFlag.top = Config.startY + last.row * (Config.itemHeight + Config.verticalSpacing)
                      + Config.itemHeight \div 2

\* Centres whose edges lie just inside, on, and just outside a margin line.
ProbeCentres(margin, canvas, half) ==
  { margin + half - 1, margin + half, margin + half + 1,
    canvas - margin - half - 1, canvas - margin - half, canvas - margin - half + 1 }
StrictlyOutside(lo, x, hi) == x < lo \/ x > hi

\* C24: exceeds(centerX, centerY, config) is true exactly when at least one of
\* the item's four edges (centre minus or plus half the item extent) lies
\* strictly outside [safetyMargin, canvasDimension - safetyMargin] on its
\* axis; an edge exactly on a margin line is not reported.
C24_ExceedsIffEdgeStrictlyOutside ==
  LET g == Config
      hw == g.itemWidth \div 2
      hh == g.itemHeight \div 2
      m == g.safetyMargin
  IN \A x \in ProbeCentres(m, g.canvasWidth, hw) :
       \A y \in ProbeCentres(m, g.canvasHeight, hh) :
         wouldExceedCanvasBoundary(x, y, g) <=>
           \/ StrictlyOutside(m, x - hw, g.canvasWidth - m)
           \/ StrictlyOutside(m, x + hw, g.canvasWidth - m)
           \/ StrictlyOutside(m, y - hh, g.canvasHeight - m)
           \/ StrictlyOutside(m, y + hh, g.canvasHeight - m)

\* autoPlace accepted, without a retry, a slot whose left edge and bottom
\* edge lie exactly on the margin lines.
C24_Witness ==
  /\ last.op = "autoPlaceFlag" /\ last.ok /\ last.attempts = 0
  /\ LastFlag.left - Config.itemWidth \div 2 = Config.safetyMargin
  /\ LastFlag.top + Config.itemHeight \div 2 = Config.canvasHeight - Config.safetyMargin
  /\ ~wouldExceedCanvasBoundary(LastFlag.left, LastFlag.top, Config)
\* ----------------------------------------------------------------------- C25
\* An autoPlace call with a known key directly after an autoPlace call whose
\* boundary-avoidance loop took the bottom-boundary branch.
CallAfterRollover ==
  /\ last.op = "autoPlaceFlag" /\ last.ok /\ last.rollover
  /\ last'.op = "autoPlaceFlag" /\ last'.ok

StartedPastRight ==
  /\ last.op = "autoPlaceFlag" /\ last.ok
  /\ SlotLeft(Config, last.from.col) > maxRightPosition(Config)

\* C26: when the candidate of the cursor exceeds the right boundary at the
\* start of autoPlace and slot (0, cursor row + 1) is within bounds, the loop
\* resets to column 0, increments the row once, and the item is committed at
\* the centre of slot (0, cursor row + 1).
C26_RightOverflowCommitsNextRowOfColumn0 ==
  (StartedPastRight /\ SlotInBounds(Config, 0, last.from.row + 1))
    => /\ last.col = 0 /\ last.row = last.from.row + 1
       /\ last.attempts = 1 /\ ~last.fallback
       /\ <<LastFlag.left, LastFlag.top>>
            = SlotPoint(Config, <<0, last.from.row + 1>>)

\* A call that started past the right boundary from a column other than 0
\* and committed in bounds.
C26_Witness ==
  /\ StartedPastRight /\ SlotInBounds(Config, 0, last.from.row + 1)
  /\ last.from.col > 0
  /\ LastFlag.id = last.id
  /\ LastFlag.left = SlotLeft(Config, 0)

\* ----------------------------------------------------------------------- C27
\* The last call was autoPlace and the candidate of the cursor it started from
\* was past the bottom boundary and not past the right boundary.
StartedPastBottomOnly ==
  LET g == Config
  IN /\ last.op = "autoPlaceFlag" /\ last.ok
     /\ SlotLeft(g, last.from.col) <= maxRightPosition(g)
     /\ SlotTop(g, last.from.row) + g.itemHeight \div 2 + g.safetyMargin
          > g.canvasHeight
NextColumnOverflows(g, col) == SlotLeft(g, col + 1) > maxRightPosition(g)
\* The first row of column 0 whose slot is within bounds, row 0 if there is none.
FirstRowOfColumn0(g) ==
  LET rows == { r \in 0..(g.maxItemsPerColumn - 1) : SlotInBounds(g, 0, r) }
  IN IF rows = {} THEN 0 ELSE SetMin(rows)
\* The slot the bottom-boundary branch moves to.
RolloverSlot(g, pos) ==
  IF NextColumnOverflows(g, pos.col) THEN <<0, FirstRowOfColumn0(g)>>
  ELSE <<pos.col + 1, 0>>

\* C27 (as stated): when the candidate of the cursor exceeds only the bottom
\* boundary at the start of autoPlace, the item is committed at row 0 of the
\* next column, or in column 0 if the next column would itself overflow the
\* right boundary.
C27_BottomOverflowCommitsNextColumn ==
  StartedPastBottomOnly
    => IF NextColumnOverflows(Config, last.from.col)
       THEN last.col = 0
       ELSE /\ last.col = last.from.col + 1 /\ last.row = 0
            /\ <<LastFlag.left, LastFlag.top>>
                 = SlotPoint(Config, <<last.from.col + 1, 0>>)

\* C27 (amended): the same, provided the slot moved to (row 0 of the next
\* column, or the first row of column 0 that is within bounds if the next
\* column would overflow the right boundary) is within bounds; the item is
\* then committed at the centre of that slot after one loop iteration.
C27_BottomOverflowCommitsRolloverSlotInBounds ==
  LET slot == RolloverSlot(Config, last.from)
  IN (StartedPastBottomOnly /\ SlotInBounds(Config, slot[1], slot[2]))
       => /\ last.col = slot[1] /\ last.row = slot[2]
          /\ last.attempts = 1 /\ ~last.fallback
          /\ <<LastFlag.left, LastFlag.top>> = SlotPoint(Config, slot)

\* A call that started past the bottom in the last column that fits and
\* wrapped to column 0.
C27_Witness ==
  LET slot == RolloverSlot(Config, last.from)
  IN /\ StartedPastBottomOnly /\ SlotInBounds(Config, slot[1], slot[2])
     /\ NextColumnOverflows(Config, last.from.col)
     /\ last.from.col > 0
     /\ LastFlag.id = last.id
     /\ LastFlag.left = SlotLeft(Config, 0)

\* ----------------------------------------------------------------------- C28
\* C28: every autoPlace call with a known key returns after at most 20
\* iterations of its boundary-avoidance loop and has committed its item
\* (the newest item of the collection carries the id the call drew), for
\* every cursor the call starts from and every GridConfig, also on canvases
\* too small for any slot.
C28_LoopCappedAndCommits ==
  (last.op = "autoPlaceFlag" /\ last.ok)
    => /\ last.attempts <= 20
       /\ Len(placedFlags) >= 1
       /\ LastFlag.id = last.id

\* A call on a canvas too small for any slot ran the loop to its cap and
\* committed.
C28_Witness ==
  /\ last.op = "autoPlaceFlag" /\ last.ok
  /\ ~FirstSlotInBounds(Config)
  /\ last.attempts = 19
  /\ LastFlag.id = last.id

\* ----------------------------------------------------------------------- C29
\* The fixed top-plus-bottom buffer of the device class.
VerticalBudget(mobile) == IF mobile THEN 100 ELSE 200
\* floor((canvasHeight - verticalBudget) / (itemHeight + verticalSpacing)),
\* at least 1.
RowsInBudget(g, mobile) ==
  Max(1, (g.canvasHeight - VerticalBudget(mobile)) \div RowHeight(g))
\* autoPlace has read the configuration of a measurable canvas.
MeasuredConfigRead ==
  last.op = "autoPlaceFlag" /\ last.ok /\ playArea.node

FilledColumns == { ColumnOf(Config, placedFlags[i]) : i \in 1..Len(placedFlags) }
\* The last autoPlace call filled a column and the cursor did not move on to
\* the column to its right: it wrapped back.
Wrapped ==
  /\ last.op = "autoPlaceFlag" /\ last.ok
  /\ gridPosition.row = 0 /\ gridPosition.col <= last.col
\* max(1, floor((canvasWidth - 2*safetyMargin - itemWidth) / columnWidth) + 1)
StatedMaxColumns(g) ==
  Max(1, (g.canvasWidth - 2 * g.safetyMargin - g.itemWidth) \div g.columnWidth + 1)
\* The columns from startX on whose right edge stays within the right margin.
ColumnsFromStartX(g) ==
  (g.canvasWidth - g.safetyMargin - g.itemWidth - g.startX) \div g.columnWidth + 1

\* C30 (as stated): for a measurable canvas, the number of distinct columns
\* autoPlace has filled from an empty board when it wraps back equals
\* max(1, floor((canvasWidth - 2*safetyMargin - itemWidth) / columnWidth) + 1).
C30_ColumnsFilledIsStatedMaxColumns ==
  (playArea.node /\ Wrapped)
    => Cardinality(FilledColumns) = StatedMaxColumns(Config)

\* C30 (amended): for a measurable canvas whose slot (0, 0) is within bounds,
\* autoPlace fills from an empty board the columns 0 .. n - 1 and no other,
\* and has filled all of them when it wraps back, where
\* n = floor((canvasWidth - safetyMargin - itemWidth - startX) / columnWidth) + 1.
C30_ColumnsFilledCountsFromStartX ==
  (playArea.node /\ FirstSlotInBounds(Config))
    => /\ FilledColumns \subseteq 0..(ColumnsFromStartX(Config) - 1)
       /\ (Wrapped => FilledColumns = 0..(ColumnsFromStartX(Config) - 1))

\* autoPlace has filled three columns and wrapped back on a canvas for which
\* the stated formula gives another number.
C30_Witness ==
  /\ playArea.node /\ FirstSlotInBounds(Config) /\ Wrapped
  /\ Cardinality(FilledColumns) = 3
  /\ StatedMaxColumns(Config) # 3

\* ----------------------------------------------------------------------- C31
\* C31: in every interleaving of autoPlace, placeAt, move and remove under
\* fixed geometry, every autoPlace call, not only the first after a manual
\* edit, commits at a (left, top) that no item on the board holds, as long as
\* an in-bounds grid slot is unoccupied.
C31_EveryAutoPlaceAvoidsItems ==
  [][ (AutoPlaceCommits /\ FreeSlotExists(placedFlags, Config))
      => NewFlagPoint \notin Positions(placedFlags) ]_vars

\* ----------------------------------------------------------------------- C32
\* The provider is between its startup read and the first user operation,
\* and the read gave a non-empty collection.
StartupWithSavedLayout ==
  /\ phase \in {"save", "render"}
  /\ pendingFlags.set /\ pendingFlags.kind = "array"
  /\ pendingFlags.flags # <<>>

\* C32: at startup with a valid non-empty saved layout, every write to the
\* saved key between the startup read and the first user operation
\* serializes the collection that was read, never the empty initial
\* collection.
C32_StartupWritesKeepSavedLayout ==
  [][ (StartupWithSavedLayout /\ storage' # storage)
      => storage' = Stringify(pendingFlags.flags) ]_vars

\* ----------------------------------------------------------------------- C33
\* The step is an autoPlace or placeAt call with a known key.
AddingCall == last'.op \in {"autoPlaceFlag", "addFlag"} /\ last'.ok
ItemIds(flags) == { flags[i].id : i \in 1..Len(flags) }

\* C33: every autoPlace or placeAt call with a known key appends exactly one
\* new item with a fresh id at the end of the collection and leaves every
\* existing item and the existing order unchanged.
C33_AddAppendsOneFreshItem ==
  [][ AddingCall
      => /\ Len(placedFlags') = Len(placedFlags) + 1
         /\ \A i \in 1..Len(placedFlags) : placedFlags'[i] = placedFlags[i]
         /\ placedFlags'[Len(placedFlags')].id \notin ItemIds(placedFlags)
         /\ placedFlags'[Len(placedFlags')].type \in Inventory ]_vars

\* A placeAt call added an item to a board that held items already.
C33_Witness ==
  /\ last.op = "addFlag" /\ last.ok
  /\ Len(placedFlags) >= 2
  /\ LastFlag.id = last.id
  /\ LastFlag.id \notin ItemIds(SubSeq(placedFlags, 1, Len(placedFlags) - 1))

\* ----------------------------------------------------------------------- C34
\* The indices of the items with the id the step's call was given.
Targets == { i \in 1..Len(placedFlags) : placedFlags[i].id = last'.id }
\* seq without its k-th element.
Without(seq, k) == SubSeq(seq, 1, k - 1) \o SubSeq(seq, k + 1, Len(seq))

\* C34: move(id, left, top) with an existing id changes only the left and top
\* of the item with that id: the number of items, their order and every field
\* of every other item are unchanged; remove(id) with an existing id removes
\* exactly that item and keeps the order and the fields of all others.
C34_MoveAndRemoveTouchOneItem ==
  [][ /\ (last'.op = "moveFlag" /\ last'.ok)
           => /\ Cardinality(Targets) = 1
              /\ Len(placedFlags') = Len(placedFlags)
              /\ \A i \in 1..Len(placedFlags) :
                    IF i \in Targets
                    THEN placedFlags'[i] =
                           [placedFlags[i] EXCEPT !.left = placedFlags'[i].left,
                                                  !.top = placedFlags'[i].top]
                    ELSE placedFlags'[i] = placedFlags[i]
      /\ (last'.op = "removeFlag" /\ last'.ok)
           => /\ Cardinality(Targets) = 1
              /\ placedFlags' = Without(placedFlags, CHOOSE k \in Targets : TRUE) ]_vars

\* remove has taken an item out and an item added after it is still there.
C34_Witness ==
  /\ last.op = "removeFlag" /\ last.ok
  /\ last.id \notin ItemIds(placedFlags)
  /\ \E i \in 1..Len(placedFlags) : placedFlags[i].id > last.id

\* ----------------------------------------------------------------------- C35
\* C35: in every reachable state, after any sequence of autoPlace, placeAt,
\* move, remove, clearAll and reload on either device class, also with items
\* dropped left of or above the grid or far off the canvas on a regular
\* device, the cursor column and the cursor row are non-negative integers.
C35_CursorIsNonNegative ==
  /\ gridPosition.col \in Nat
  /\ gridPosition.row \in Nat

\* On a regular device an item lies left of column 0 after a drop, and the
\* cursor was reconciled with it.
C35_Witness ==
  /\ phase = "ready" /\ ~isMobile
  /\ last.op \in {"addFlag", "moveFlag"} /\ last.ok
  /\ \E i \in 1..Len(placedFlags) :
       /\ placedFlags[i].id = last.id
       /\ ColumnOf(Config, placedFlags[i]) < 0

\* ----------------------------------------------------------------------- C36
\* The bottom edge of the slot at the given row.
RowBottomEdge(g, row) == SlotTop(g, row) + g.itemHeight \div 2

\* C36: for every GridConfig computed from a measurable canvas, all
\* maxItemsPerColumn rows of a column fit vertically: the bottom edge of the
\* slot at row maxItemsPerColumn - 1 is at or above canvasHeight -
\* safetyMargin.
C36_AllRowsFitVertically ==
  MeasuredConfigRead
    => RowBottomEdge(Config, Config.maxItemsPerColumn - 1)
         <= Config.canvasHeight - Config.safetyMargin

\* ----------------------------------------------------------------------- C37
\* The slot the cursor designates is within bounds, so that the loop of the
\* next autoPlace call does not run.
CursorInBounds ==
  PointInBounds(Config, SlotLeft(Config, gridPosition.col),
                SlotTop(Config, gridPosition.row))

\* C37: under fixed geometry in which slot (0, 0) is within bounds, after
\* every autoPlace call the cursor designates a slot whose position does not
\* exceed the canvas boundary.
C37_CursorInBoundsAfterAutoPlace ==
  (last.op = "autoPlaceFlag" /\ last.ok /\ FirstSlotInBounds(Config))
    => CursorInBounds

\* C37, second half: the autoPlace call that follows an autoPlace call runs
\* no boundary-avoidance iteration.
C37_NextAutoPlaceNeedsNoIteration ==
  [][ (last.op = "autoPlaceFlag" /\ last.ok /\ FirstSlotInBounds(Config)
       /\ AutoPlaceCommits)
      => last'.attempts = 0 ]_vars

\* autoPlace filled the last row that fits of a column that maxItemsPerColumn
\* treats as not full, and the cursor moved to row 0 of the next column.
C37_Witness ==
  /\ last.op = "autoPlaceFlag" /\ last.ok /\ FirstSlotInBounds(Config)
  /\ last.row + 1 < Config.maxItemsPerColumn
  /\ gridPosition = [col |-> last.col + 1, row |-> 0]
  /\ CursorInBounds

====
